---- MODULE Spec2Model ----
(***************************************************************************)
(* A model of fsf.py: the tree walker (subfiles, subdirs, subpaths), the   *)
(* content hasher, the duplicate grouper (get_duplicates), the remover     *)
(* (remove, remove_duplicates), the working-directory helper (in_dir) and  *)
(* the test-tree generator (create_test_directory).                        *)
(*                                                                         *)
(* A resolved path is the sequence of its components from the file-system  *)
(* root.  A Python value is a record tagged with its type; a string is     *)
(* read as the path it spells.  The file system is the set dirs of the     *)
(* directories and the function fs from the regular files to their         *)
(* contents.                                                               *)
(***************************************************************************)
EXTENDS Naturals, Sequences, FiniteSets, TLC

VARIABLES dirs, fs, cwd, call, ret, it, ctx

vars == <<dirs, fs, cwd, call, ret, it, ctx>>

----------------------------------------------------------------------------
(* Bounds of the model.                                                    *)

\* The greatest number of regular files in the tree at the start.
MaxFiles == 3
\* The greatest number of entries of a directory that a call lists.
MaxEntries == 4
\* The greatest value of the string hash that create_test_directory writes
\* into a unique file.
MaxHash == 1

----------------------------------------------------------------------------
(* The file-system universe at the start: the directory skeleton is fixed, *)
(* the files and their contents vary.                                      *)

Top == <<>>
Root == <<"root">>
DirA == <<"root", "a">>
DirB == <<"root", "b">>
DirC == <<"root", "a", "c">>
Missing == <<"root", "missing">>
BelowFile == <<"root", "f", "x">>
\* The directory that main.py searches, empty at the start.
TestDirec == <<"test_direc">>

DirSet == {Top, Root, DirA, DirB, DirC, TestDirec}
FileNames == {"f", "g"}
FileSlots == {d \o <<n>> : d \in {Root, DirA, DirB, DirC}, n \in FileNames}
Contents == {"hello", "world"}

FileSystems ==
  UNION {[S -> Contents] : S \in {T \in SUBSET FileSlots : Cardinality(T) <= MaxFiles}}

\* What a path names in the directories ds and the files f.  Below a
\* regular file nothing can be looked up.
Kind(ds, f, p) ==
  IF p \in ds THEN "dir"
  ELSE IF p \in DOMAIN f THEN "file"
  ELSE IF \E k \in 1..(Len(p) - 1) : SubSeq(p, 1, k) \in DOMAIN f THEN "notdir"
  ELSE "missing"

IsDir(p) == Kind(dirs, fs, p) = "dir"
IsFile(p) == Kind(dirs, fs, p) = "file"

\* The names of the entries of the directory d.
Entries(d) ==
  {p[Len(p)] : p \in {q \in dirs \cup DOMAIN fs :
                        Len(q) = Len(d) + 1 /\ SubSeq(q, 1, Len(d)) = d}}

RECURSIVE Perms(_)
Perms(S) ==
  IF S = {} THEN {<<>>}
  ELSE UNION {{<<x>> \o p : p \in Perms(S \ {x})} : x \in S}

\* The orders in which the operating system may list the directories of D:
\* each directory has an order of its own, and any order of its entries is
\* possible.
RECURSIVE OrdersOver(_)
OrdersOver(D) ==
  IF D = {} THEN {[d \in {} |-> <<>>]}
  ELSE LET d == CHOOSE x \in D : TRUE IN
       {(d :> p) @@ o : o \in OrdersOver(D \ {d}), p \in Perms(Entries(d))}

\* The orders in which the directories of D may be listed again after they
\* were listed in the orders old: the entries that are still there keep their
\* places among themselves, a new entry may come anywhere.
RECURSIVE Relistings(_, _)
Relistings(D, old) ==
  IF D = {} THEN {[d \in {} |-> <<>>]}
  ELSE LET d == CHOOSE x \in D : TRUE IN
       {(d :> p) @@ o :
          o \in Relistings(D \ {d}, old),
          p \in {q \in Perms(Entries(d)) :
                   SelectSeq(q, LAMBDA n : \E i \in 1..Len(old[d]) : old[d][i] = n)
                     = SelectSeq(old[d], LAMBDA n : n \in Entries(d))}}

----------------------------------------------------------------------------
(* Python values and results.                                              *)

Str(abs, parts) == [t |-> "str", abs |-> abs, parts |-> parts, items |-> <<>>]
PPath(abs, parts) == [t |-> "Path", abs |-> abs, parts |-> parts, items |-> <<>>]
List(items) == [t |-> "list", abs |-> FALSE, parts |-> <<>>, items |-> items]
Tuple(items) == [t |-> "tuple", abs |-> FALSE, parts |-> <<>>, items |-> items]
Dict(entries) == [t |-> "dict", abs |-> FALSE, parts |-> <<>>, items |-> entries]
IntV == [t |-> "int", abs |-> FALSE, parts |-> <<>>, items |-> <<>>]
None == [t |-> "NoneType", abs |-> FALSE, parts |-> <<>>, items |-> <<>>]

Ok(v) == [exc |-> "none", val |-> v]
Raise(e) == [exc |-> e, val |-> <<>>]

\* Path.resolve() in the working directory wd: a relative path is taken
\* from wd.
resolve_in(wd, p) == IF p.abs THEN p.parts ELSE wd \o p.parts
resolve(p) == resolve_in(cwd, p)

path_handler(path) ==
  IF path.t = "Path" THEN Ok(path)
  ELSE IF path.t = "str" THEN Ok(PPath(path.abs, path.parts))
  ELSE Raise("NotImplementedError")

----------------------------------------------------------------------------
(* Content hasher.                                                         *)

DuplicateText == "This is a randomly generated duplicate file."

\* The text of a unique file: it ends in the hash of the file's path.
UniqueText(h) ==
  CASE h = 0 -> "This is a randomly generated unique file. Path hash: 0"
    [] h = 1 -> "This is a randomly generated unique file. Path hash: 1"
    [] h = 2 -> "This is a randomly generated unique file. Path hash: 2"
    [] h = 3 -> "This is a randomly generated unique file. Path hash: 3"

MD5(buf) ==
  CASE buf = "hello" -> "5d41402abc4b2a76b9719d911017c592"
    [] buf = "world" -> "7d793037a0760186574b0282f2f435e7"
    [] buf = DuplicateText -> "0f50db3dcf3c9a44db7d475ba32ec1b6"
    [] buf = UniqueText(0) -> "9782068bc11a03ad43e65367fd32a6fe"
    [] buf = UniqueText(1) -> "12bdcba9b0ba5e839f4196161d583a93"
    [] buf = UniqueText(2) -> "588af6bac2402e0f505c8cdb8023d079"
    [] buf = UniqueText(3) -> "d142ad87e42ce5e8d27f58e3a8d2a49b"

\* path is the resolved path of an existing regular file.
hash_from_path(path) == MD5(fs[path])

----------------------------------------------------------------------------
(* Tree walker.  os.scandir opens the directory when it is called and      *)
(* reads the entries when it is iterated; subfiles and subdirs return      *)
(* generators over it.  A generator of subfiles is the directory it will   *)
(* list, and the iterable of subpaths is the chain of these directories.   *)
(* order gives, for each directory, the order in which it is listed.       *)

\* os.scandir(direc): opening the directory.
scandir(direc) ==
  LET kind == Kind(dirs, fs, direc) IN
  IF kind = "dir" THEN Ok(direc)
  ELSE IF kind = "missing" THEN Raise("FileNotFoundError")
  ELSE Raise("NotADirectoryError")

\* Iterating the open directory: the names of its present entries.
scandir_entries(direc, order) ==
  SelectSeq(order[direc], LAMBDA n : Kind(dirs, fs, direc \o <<n>>) \in {"dir", "file"})

RECURSIVE JoinAll(_, _)
JoinAll(direc, names) ==
  IF names = <<>> THEN <<>>
  ELSE <<direc \o <<Head(names)>>>> \o JoinAll(direc, Tail(names))

\* The call of subfiles: the generator over the opened directory.
subfiles(directory) ==
  LET h == path_handler(directory) IN
  IF h.exc # "none" THEN h
  ELSE LET sc == scandir(resolve(h.val)) IN
       IF sc.exc # "none" THEN sc ELSE Ok(<<sc.val>>)

\* What the generator of subfiles yields when it is iterated.
subfiles_yield(direc, order) ==
  JoinAll(direc, SelectSeq(scandir_entries(direc, order), LAMBDA n : IsFile(direc \o <<n>>)))

\* subdirs, iterated at once as the loop of subpaths does.
subdirs(directory, order) ==
  LET h == path_handler(directory) IN
  IF h.exc # "none" THEN h
  ELSE LET sc == scandir(resolve(h.val)) IN
       IF sc.exc # "none" THEN sc
       ELSE Ok(JoinAll(sc.val, SelectSeq(scandir_entries(sc.val, order),
                                         LAMBDA n : IsDir(sc.val \o <<n>>))))

RECURSIVE subpaths(_, _)
RECURSIVE chain_subdirs(_, _, _)
RECURSIVE chain_subdirs_front(_, _, _)

\* A variant of the loop that chains each subtree in front of what it has.
chain_subdirs_front(sf, ds, order) ==
  IF ds = <<>> THEN Ok(sf)
  ELSE LET r == subpaths(PPath(TRUE, Head(ds)), order) IN
       IF r.exc # "none" THEN r
       ELSE chain_subdirs_front(r.val \o sf, Tail(ds), order)

\* The loop of subpaths: sf = chain(sf, subpaths(d)) for each d of ds.
chain_subdirs(sf, ds, order) ==
  IF ds = <<>> THEN Ok(sf)
  ELSE LET r == subpaths(PPath(TRUE, Head(ds)), order) IN
       IF r.exc # "none" THEN r
       ELSE chain_subdirs(sf \o r.val, Tail(ds), order)

\* The call of subpaths: the subdirectories are walked now, the files are
\* listed when the returned chain is iterated.
subpaths(directory, order) ==
  LET h == path_handler(directory) IN
  IF h.exc # "none" THEN h
  ELSE LET sf == subfiles(h.val)
           sd == subdirs(h.val, order) IN
       IF sf.exc # "none" THEN sf
       ELSE IF sd.exc # "none" THEN sd
       ELSE chain_subdirs(sf.val, sd.val, order)

\* Iterating a chain to its end: list(chain).
RECURSIVE chain_yield(_, _)
chain_yield(chain, order) ==
  IF chain = <<>> THEN <<>>
  ELSE subfiles_yield(Head(chain), order) \o chain_yield(Tail(chain), order)

\* The iterator that subpaths returns; it keeps resolved paths only, root
\* being the directory it was asked for.  chain holds the directory being
\* read and those still to come; read tells that the first of them has been
\* listed, which happens when the iterator first reaches it, and buf holds
\* the files of that listing not yet handed out: the listing of a directory
\* is read in one piece, so a file deleted afterwards is still yielded.
\* touched tells that the caller has made another call since subpaths
\* returned, midway that a directory had been listed by then.
new_iterator(order, chain) ==
  [open |-> TRUE, root |-> Head(chain), order |-> order, chain |-> chain,
   read |-> FALSE, buf |-> <<>>, yielded |-> <<>>, touched |-> FALSE,
   midway |-> FALSE]

\* The iterator after another call of its holder.
iter_touch(itr) ==
  IF itr.open THEN [itr EXCEPT !.touched = TRUE, !.midway = itr.read] ELSE itr

\* The directories of the chain that have not been listed yet.
unread(itr) == IF itr.read THEN Tail(itr.chain) ELSE itr.chain

\* The first directory of chain that lists a file now, 0 when none does.
first_with_files(chain, order) ==
  LET S == {k \in 1..Len(chain) : subfiles_yield(chain[k], order) # <<>>} IN
  IF S = {} THEN 0 ELSE CHOOSE k \in S : \A j \in S : k <= j

\* next(it): the next file of the listing in hand or, when that is used up,
\* the first file of the next directory that has one.
iter_next(itr, order) ==
  IF itr.read /\ itr.buf # <<>>
    THEN [exc |-> "none", val |-> Head(itr.buf),
          it |-> [itr EXCEPT !.buf = Tail(@), !.yielded = Append(@, Head(itr.buf))]]
  ELSE IF first_with_files(unread(itr), order) = 0
    THEN [exc |-> "StopIteration", val |-> <<>>,
          it |-> [itr EXCEPT !.chain = <<>>, !.read = FALSE]]
  ELSE [exc |-> "none",
        val |-> Head(subfiles_yield(unread(itr)[first_with_files(unread(itr), order)], order)),
        it |-> [itr EXCEPT
                  !.chain = SubSeq(unread(itr), first_with_files(unread(itr), order),
                                   Len(unread(itr))),
                  !.read = TRUE,
                  !.buf = Tail(subfiles_yield(
                                 unread(itr)[first_with_files(unread(itr), order)], order)),
                  !.yielded = Append(@, Head(subfiles_yield(
                                 unread(itr)[first_with_files(unread(itr), order)], order)))]]

\* list(it): what is left of the listing in hand, then the directories to
\* come.
iter_rest(itr, order) ==
  (IF itr.read THEN itr.buf ELSE <<>>) \o chain_yield(unread(itr), order)

----------------------------------------------------------------------------
(* Duplicate grouper.  A dictionary is the sequence of its entries in      *)
(* insertion order.  Nothing else runs between the call of subpaths and    *)
(* the loops that iterate its chain.                                       *)

\* subpaths(directory) iterated to its end.
walk(directory, order) ==
  LET r == subpaths(directory, order) IN
  IF r.exc # "none" THEN r ELSE Ok(chain_yield(r.val, order))

\* A variant of the generator that walks the first root only.
roots_generator_first(roots, order) ==
  IF roots = <<>> THEN Ok(<<>>) ELSE walk(Head(roots), order)

\* (path for dir in roots for path in subpaths(dir)): val is what the
\* generator yields before it ends or raises exc.
RECURSIVE roots_generator(_, _)
roots_generator(roots, order) ==
  IF roots = <<>> THEN Ok(<<>>)
  ELSE LET r == walk(Head(roots), order) IN
       IF r.exc # "none" THEN r
       ELSE LET rest == roots_generator(Tail(roots), order) IN
            [exc |-> rest.exc, val |-> r.val \o rest.val]

\* paths.remove(exc_path): paths is a generator or a chain, neither of which
\* has a remove attribute.
paths_remove(paths, exc_path) == Raise("AttributeError")

dict_has(d, k) == \E i \in 1..Len(d) : d[i].key = k

\* A variant that puts a later path in front of the earlier ones.
dict_put_front(hash_path_dict, file_hash, path) ==
  IF ~dict_has(hash_path_dict, file_hash)
    THEN Append(hash_path_dict, [key |-> file_hash, val |-> <<path>>])
  ELSE [i \in 1..Len(hash_path_dict) |->
          IF hash_path_dict[i].key = file_hash
            THEN [key |-> file_hash, val |-> <<path>> \o hash_path_dict[i].val]
          ELSE hash_path_dict[i]]

\* A variant without the else: the path that creates an entry is appended
\* to it as well.
dict_put_noelse(hash_path_dict, file_hash, path) ==
  LET d == IF ~dict_has(hash_path_dict, file_hash)
             THEN Append(hash_path_dict, [key |-> file_hash, val |-> <<path>>])
           ELSE hash_path_dict IN
  [i \in 1..Len(d) |->
     IF d[i].key = file_hash
       THEN [key |-> file_hash, val |-> Append(d[i].val, path)]
     ELSE d[i]]

dict_put(hash_path_dict, file_hash, path) ==
  IF ~dict_has(hash_path_dict, file_hash)
    THEN Append(hash_path_dict, [key |-> file_hash, val |-> <<path>>])
  ELSE [i \in 1..Len(hash_path_dict) |->
          IF hash_path_dict[i].key = file_hash
            THEN [key |-> file_hash, val |-> Append(hash_path_dict[i].val, path)]
          ELSE hash_path_dict[i]]

RECURSIVE hash_paths(_, _)
hash_paths(paths, hash_path_dict) ==
  IF paths = <<>> THEN hash_path_dict
  ELSE hash_paths(Tail(paths),
                  dict_put(hash_path_dict, hash_from_path(Head(paths)), Head(paths)))

\* A variant of the filter that keeps every entry.
is_duplicated_any(kvp) == Len(kvp.val) > 0

is_duplicated(kvp) == Len(kvp.val) > 1

Fail(e, n) == [exc |-> e, val |-> <<>>, hashed |-> n]

\* The loop over the candidates and the closing filter; val and exc are what
\* the candidate iterable yields and how it ends.
group(candidates) ==
  IF candidates.exc # "none" THEN Fail(candidates.exc, Len(candidates.val))
  ELSE [exc |-> "none",
        val |-> SelectSeq(hash_paths(candidates.val, <<>>), is_duplicated),
        hashed |-> Len(candidates.val)]

\* The exclusion loop: the first excluded path raises out of paths.remove.
exclude_from(paths, exc) ==
  IF exc.val # <<>> THEN Fail(paths_remove(paths, exc.val[1]).exc, 0)
  ELSE IF exc.exc # "none" THEN Fail(exc.exc, 0)
  ELSE group(paths)

get_duplicates(include, exclude, order) ==
  LET single == include.t \in {"Path", "str"}
      opened == subpaths(include, order)
      paths == IF single THEN walk(include, order)
               ELSE roots_generator(include.items, order) IN
  IF ~single /\ include.t # "list" THEN Fail("NotImplementedError", 0)
  ELSE IF single /\ opened.exc # "none" THEN Fail(opened.exc, 0)
  ELSE IF exclude.t = "NoneType" THEN group(paths)
  ELSE IF exclude.t = "str"
    THEN LET exc == walk(exclude, order) IN
         IF exc.exc # "none" THEN Fail(exc.exc, 0) ELSE exclude_from(paths, exc)
  ELSE IF exclude.t = "list"
    THEN exclude_from(paths, roots_generator(exclude.items, order))
  ELSE Fail("NotImplementedError", 0)

----------------------------------------------------------------------------
(* Remover.  f is the file system as the loop has left it so far.          *)

\* os.remove(p) on the files f.
osrmv(f, p) ==
  IF p.t \notin {"str", "Path"} THEN [exc |-> "TypeError", fs |-> f]
  ELSE LET q == resolve(p)
           kind == Kind(dirs, f, q) IN
       IF kind = "file" THEN [exc |-> "none", fs |-> [x \in DOMAIN f \ {q} |-> f[x]]]
       ELSE IF kind = "dir" THEN [exc |-> "IsADirectoryError", fs |-> f]
       ELSE IF kind = "notdir" THEN [exc |-> "NotADirectoryError", fs |-> f]
       ELSE [exc |-> "FileNotFoundError", fs |-> f]

\* The except clause of remove's loop.
remove_catches(e) == e = "FileExistsError"

RECURSIVE remove_loop(_, _, _)
remove_loop(paths, f, failed) ==
  IF paths = <<>> THEN [exc |-> "none", val |-> failed, fs |-> f]
  ELSE LET p == Head(paths)
           r == osrmv(f, p) IN
       IF r.exc = "none" THEN remove_loop(Tail(paths), r.fs, failed)
       ELSE IF remove_catches(r.exc) THEN remove_loop(Tail(paths), r.fs, Append(failed, p))
       ELSE [exc |-> r.exc, val |-> <<>>, fs |-> r.fs]

\* What a for loop over a dictionary iterates: its keys.
dict_keys(d) == [i \in 1..Len(d) |-> Str(FALSE, <<d[i].key>>)]

remove(paths) ==
  IF paths.t = "str" THEN remove_loop(<<paths>>, fs, <<>>)
  ELSE IF paths.t \in {"list", "tuple"} THEN remove_loop(paths.items, fs, <<>>)
  ELSE IF paths.t = "dict" THEN remove_loop(dict_keys(paths.items), fs, <<>>)
  ELSE [exc |-> "TypeError", val |-> <<>>, fs |-> fs]

\* remove(d), for the outcome d of get_duplicates: an exception of
\* get_duplicates leaves remove uncalled.
remove_found(d) ==
  IF d.exc # "none" THEN [exc |-> d.exc, val |-> <<>>, fs |-> fs]
  ELSE remove(Dict(d.val))

remove_duplicates(directory, order) ==
  remove_found(get_duplicates(directory, None, order))

----------------------------------------------------------------------------
(* Working-directory helper.                                               *)

\* os.chdir(p) from the working directory wd, in the directories ds and the
\* files f: the working directory afterwards.
chdir_in(wd, ds, f, p) ==
  LET q == resolve_in(wd, p)
      kind == Kind(ds, f, q) IN
  IF kind = "dir" THEN [exc |-> "none", cwd |-> q]
  ELSE IF kind = "missing" THEN [exc |-> "FileNotFoundError", cwd |-> wd]
  ELSE [exc |-> "NotADirectoryError", cwd |-> wd]

chdir(p) == chdir_in(cwd, dirs, fs, p)

getcwd == Str(TRUE, cwd)

\* cwd = getcwd(); chdir(path_handler(directory)), before the try block.
in_dir_enter(directory) ==
  LET h == path_handler(directory) IN
  IF h.exc # "none" THEN [exc |-> h.exc, cwd |-> cwd] ELSE chdir(h.val)

\* A variant that restores the directory only when the body returned.
in_dir_exit_noraise(saved, raised) ==
  IF raised THEN [exc |-> "none", cwd |-> cwd] ELSE chdir(saved)

\* The finally clause, run whether the body returned or raised.
in_dir_exit(saved, raised) == chdir(saved)

----------------------------------------------------------------------------
(* Test-tree generator.  A state st of the process is its working          *)
(* directory, the directories, the files and the exception raised, if any. *)
(* randint makes the outcome a set of states.                              *)

DefaultDuplicatePercentage == 25
DefaultMaxDirects == 5
DefaultMaxFiles == 100

DirNames == <<"dir_0", "dir_1", "dir_2", "dir_3", "dir_4", "dir_5">>
TxtNames ==
  <<
     "file_0.txt", "file_1.txt", "file_2.txt", "file_3.txt", "file_4.txt",
     "file_5.txt", "file_6.txt", "file_7.txt", "file_8.txt", "file_9.txt",
     "file_10.txt", "file_11.txt", "file_12.txt", "file_13.txt", "file_14.txt",
     "file_15.txt", "file_16.txt", "file_17.txt", "file_18.txt", "file_19.txt",
     "file_20.txt", "file_21.txt", "file_22.txt", "file_23.txt", "file_24.txt",
     "file_25.txt", "file_26.txt", "file_27.txt", "file_28.txt", "file_29.txt",
     "file_30.txt", "file_31.txt", "file_32.txt", "file_33.txt", "file_34.txt",
     "file_35.txt", "file_36.txt", "file_37.txt", "file_38.txt", "file_39.txt",
     "file_40.txt", "file_41.txt", "file_42.txt", "file_43.txt", "file_44.txt",
     "file_45.txt", "file_46.txt", "file_47.txt", "file_48.txt", "file_49.txt",
     "file_50.txt", "file_51.txt", "file_52.txt", "file_53.txt", "file_54.txt",
     "file_55.txt", "file_56.txt", "file_57.txt", "file_58.txt", "file_59.txt",
     "file_60.txt", "file_61.txt", "file_62.txt", "file_63.txt", "file_64.txt",
     "file_65.txt", "file_66.txt", "file_67.txt", "file_68.txt", "file_69.txt",
     "file_70.txt", "file_71.txt", "file_72.txt", "file_73.txt", "file_74.txt",
     "file_75.txt", "file_76.txt", "file_77.txt", "file_78.txt", "file_79.txt",
     "file_80.txt", "file_81.txt", "file_82.txt", "file_83.txt", "file_84.txt",
     "file_85.txt", "file_86.txt", "file_87.txt", "file_88.txt", "file_89.txt",
     "file_90.txt", "file_91.txt", "file_92.txt", "file_93.txt", "file_94.txt",
     "file_95.txt", "file_96.txt", "file_97.txt", "file_98.txt", "file_99.txt"
  >>

\* "dir_" + str(i) and "file_" + str(i) + ".txt"
dir_name(i) == DirNames[i + 1]
file_name(i) == TxtNames[i + 1]

\* hash(str(location) + file_name): the string hash is salted anew in every
\* process, and different strings have different hashes.  A hash function
\* gives the hash of the name of each file at its path.
HashValues == 0..MaxHash
HashFunctions(P) ==
  {h \in [P -> HashValues] : \A p, q \in P : h[p] = h[q] => p = q}

\* mkdir(name) in the working directory.
mkdir(st, name) ==
  LET q == st.cwd \o <<name>> IN
  IF Kind(st.dirs, st.fs, q) \in {"dir", "file"} THEN [st EXCEPT !.exc = "FileExistsError"]
  ELSE [st EXCEPT !.dirs = @ \cup {q}]

\* with open(name, 'w') as f: f.write(text), in the working directory.
write_file(st, name, text) ==
  LET q == st.cwd \o <<name>> IN
  IF q \in st.dirs THEN [st EXCEPT !.exc = "IsADirectoryError"]
  ELSE [st EXCEPT !.fs = [x \in DOMAIN st.fs \cup {q} |-> IF x = q THEN text ELSE st.fs[x]]]

\* for i in range(i, last + 1): mkdir("dir_" + str(i))
RECURSIVE make_dirs(_, _, _)
make_dirs(st, i, last) ==
  IF st.exc # "none" \/ i > last THEN st
  ELSE make_dirs(mkdir(st, dir_name(i)), i + 1, last)

\* int(num_files * (duplicate_percentage / 100)) is computed in binary
\* floating point.  For num_files in 1..100 and duplicate_percentage in
\* 0..100 the result is the integer quotient, but for these pairs
\* <<num_files, duplicate_percentage>>, whose product falls just short of the
\* whole number and is cut to the one below (100 * 0.29 is
\* 28.999999999999996).
FloatShort == {<<100, 29>>, <<100, 57>>, <<50, 58>>, <<100, 58>>, <<90, 70>>}

dup_count(num_files, duplicate_percentage) ==
  IF <<num_files, duplicate_percentage>> \in FloatShort
    THEN (num_files * duplicate_percentage) \div 100 - 1
  ELSE (num_files * duplicate_percentage) \div 100

\* The two loops that write the files: range(dup_files) are duplicates,
\* range(dup_files, unique_files + dup_files) are unique.
RECURSIVE make_files(_, _, _, _, _)
make_files(st, i, dup_files, num_files, hash) ==
  IF st.exc # "none" \/ (i >= dup_files /\ i >= num_files) THEN st
  ELSE make_files(
         write_file(st, file_name(i),
                    IF i < dup_files THEN DuplicateText
                    ELSE UniqueText(hash[st.cwd \o <<file_name(i)>>])),
         i + 1, dup_files, num_files, hash)

RECURSIVE create_test_directory(_, _, _, _, _, _, _)
RECURSIVE recurse_dirs(_, _, _, _, _, _)

\* The last loop: for i in range(i, num_direc), when randint(0, 1) is 1,
\* create_test_directory(depth - 1, location=join(location, dir_i)).
recurse_dirs(S, depth, location, i, num_direc, hash) ==
  IF i >= num_direc THEN S
  ELSE recurse_dirs(
         S \cup UNION {IF st.exc # "none" THEN {st}
                       ELSE create_test_directory(
                              depth - 1, Str(TRUE, location \o <<dir_name(i)>>),
                              DefaultDuplicatePercentage, DefaultMaxDirects,
                              DefaultMaxFiles, hash, st) : st \in S},
         depth, location, i + 1, num_direc, hash)

\* The states in which a call made in the state st can end.
create_test_directory(depth, location, duplicate_percentage, max_directs, max_files, hash, st) ==
  LET h == path_handler(location) IN
  IF h.exc # "none" THEN {[st EXCEPT !.exc = h.exc]}
  ELSE IF depth = 0 THEN {st}
  ELSE LET loc == resolve_in(st.cwd, h.val)
           cd == chdir_in(st.cwd, st.dirs, st.fs, PPath(TRUE, loc)) IN
       IF cd.exc # "none" THEN {[st EXCEPT !.exc = cd.exc]}
       ELSE UNION {
              recurse_dirs(
                {make_files(make_dirs([st EXCEPT !.cwd = cd.cwd], 0, num_direc), 0,
                            dup_count(num_files, duplicate_percentage), num_files, hash) :
                   num_files \in 1..max_files},
                depth, loc, 0, num_direc, hash) :
              num_direc \in 1..max_directs}

----------------------------------------------------------------------------
(* The calls made of the module.                                           *)

IncludeArgs ==
  {Str(FALSE, Root), PPath(TRUE, Root), Str(FALSE, DirA), Str(TRUE, DirB),
   PPath(FALSE, DirC), Str(FALSE, Missing), Str(TRUE, BelowFile), Str(FALSE, TestDirec),
   Str(TRUE, TestDirec),
   List(<<Str(FALSE, DirA), Str(TRUE, DirB)>>),
   List(<<Str(TRUE, DirB), PPath(TRUE, DirC)>>),
   List(<<Str(FALSE, DirA), Str(FALSE, DirA)>>),
   List(<<Str(FALSE, Root), PPath(TRUE, DirA)>>),
   List(<<>>),
   List(<<Str(TRUE, DirB), IntV>>),
   Tuple(<<Str(FALSE, DirA), Str(TRUE, DirB)>>),
   IntV}

ExcludeArgs ==
  {Str(FALSE, DirA), Str(FALSE, DirC), Str(TRUE, DirB), Str(FALSE, Missing),
   PPath(FALSE, DirA),
   List(<<Str(FALSE, DirC)>>),
   List(<<Str(TRUE, DirB), Str(FALSE, DirC)>>),
   Tuple(<<Str(FALSE, DirC)>>),
   IntV}

GetDuplicatesArgs ==
  {<<include, None>> : include \in IncludeArgs}
    \cup {<<include, exclude>> :
            include \in {Str(FALSE, Root), Str(FALSE, DirA), PPath(TRUE, Root)},
            exclude \in ExcludeArgs}
    \cup {<<IntV, IntV>>, <<IntV, Str(FALSE, DirA)>>,
          <<List(<<Str(FALSE, DirA), Str(TRUE, DirB)>>), List(<<Str(FALSE, DirC)>>)>>}

SubpathsArgs ==
  {Str(FALSE, Root), Str(FALSE, DirA), Str(TRUE, DirB), Str(FALSE, DirC),
   Str(FALSE, Missing), Str(FALSE, Root \o <<"f">>), Str(FALSE, BelowFile),
   PPath(TRUE, Root), PPath(TRUE, DirA), Str(TRUE, TestDirec), IntV}

RemovePaths ==
  {Str(FALSE, Root \o <<"f">>), Str(FALSE, Root \o <<"g">>), PPath(TRUE, DirA \o <<"f">>),
   Str(TRUE, DirB \o <<"f">>), Str(FALSE, Missing), Str(FALSE, BelowFile), Str(TRUE, DirB)}

\* The paths removed while an iterator of subpaths is being read.
MidwayRemovePaths ==
  {Str(FALSE, Root \o <<"f">>), Str(FALSE, Root \o <<"g">>), Str(TRUE, DirB \o <<"f">>)}

RemoveArgs ==
  RemovePaths \cup {List(<<>>)} \cup {List(<<p>>) : p \in RemovePaths}
    \cup {List(<<p, q>>) : p, q \in RemovePaths}
    \cup {Tuple(<<Str(FALSE, Root \o <<"f">>), Str(FALSE, Root \o <<"g">>)>>),
          List(<<Str(FALSE, Root \o <<"f">>), Str(FALSE, Missing),
                 Str(FALSE, Root \o <<"g">>)>>),
          IntV}

RemoveDuplicatesArgs ==
  {Str(FALSE, Root), PPath(TRUE, Root), Str(FALSE, DirA), PPath(FALSE, DirC),
   Str(FALSE, Missing), IntV}

InDirArgs ==
  {Str(TRUE, d) : d \in DirSet} \cup {Str(FALSE, <<"a">>), PPath(FALSE, <<"root">>),
   Str(TRUE, Missing), PPath(TRUE, Root \o <<"f">>), Str(TRUE, BelowFile), IntV}

\* depth, location, duplicate_percentage, max_directs, max_files
CreateArgs ==
  {<<1, Str(FALSE, TestDirec), 25, 1, 1>>, <<1, Str(TRUE, TestDirec), 25, 2, 2>>,
   <<1, Str(TRUE, TestDirec), 100, 1, 2>>, <<1, PPath(TRUE, TestDirec), 100, 1, 1>>,
   <<0, Str(TRUE, TestDirec), 25, 1, 1>>, <<1, Str(TRUE, Missing), 25, 1, 1>>,
   <<1, Str(TRUE, BelowFile), 25, 1, 1>>, <<1, IntV, 25, 1, 1>>, <<0, IntV, 25, 1, 1>>}

\* The calls made while an iterator of subpaths is being read.
MidwayCreateArgs ==
  {<<1, Str(FALSE, TestDirec), 25, 1, 1>>, <<1, Str(TRUE, TestDirec), 25, 2, 2>>}

Idle == [op |-> "idle"]
NoCtx == [phase |-> "idle"]
NoIterator == [open |-> FALSE]

\* p lies strictly beneath the directory d.
Beneath(d, p) == Len(p) > Len(d) /\ SubSeq(p, 1, Len(d)) = d

IsSinglePath(v) == v.t \in {"str", "Path"}

\* The directories that a call given the values vs may list: those that vs
\* name, and the directories beneath them.
Named(vs) ==
  {v \in vs : IsSinglePath(v)}
    \cup UNION {{v.items[i] : i \in {j \in 1..Len(v.items) : IsSinglePath(v.items[j])}} :
                  v \in {w \in vs : w.t = "list"}}
ScannedDirs(vs) ==
  {d \in dirs : \E v \in Named(vs) : d = resolve(v) \/ Beneath(resolve(v), d)}

\* The orders in which the directories of D may be listed, when none of them
\* has more than MaxEntries entries.
ListingOrders(D) ==
  IF \A d \in D : Cardinality(Entries(d)) <= MaxEntries THEN OrdersOver(D) ELSE {}

Init ==
  /\ dirs = DirSet
  /\ fs \in FileSystems
  /\ cwd = Top
  /\ call = Idle
  /\ ret = Idle
  /\ it = NoIterator
  /\ ctx = NoCtx

\* No call is under way and no iterator is waiting to be read.
Callable == call.op = "idle" /\ ~it.open

\* The caller holds an iterator of subpaths that is not read to its end, and
\* has made no other call since subpaths returned it.
Waiting == it.open /\ ~it.touched

\* it = subpaths(directory): the caller holds the iterator.
Subpaths ==
  \E directory \in SubpathsArgs :
    /\ Callable
    /\ \E order \in ListingOrders(ScannedDirs({directory})) :
       \E r \in {subpaths(directory, order)} :
         /\ call' = [op |-> "subpaths", directory |-> directory]
         /\ ret' = [exc |-> r.exc, val |-> <<>>]
         /\ it' = IF r.exc = "none" THEN new_iterator(order, r.val)
                  ELSE NoIterator
    /\ UNCHANGED <<dirs, fs, cwd, ctx>>

\* next(it): one path is read, or the iterator is found at its end.
NextPath ==
  /\ it.open
  /\ \E order \in Relistings({unread(it)[i] : i \in 1..Len(unread(it))}, it.order) :
     \E r \in {iter_next(it, order)} :
       /\ call' = [op |-> "next", root |-> it.root, order |-> it.order,
                   yielded |-> r.it.yielded, midway |-> it.midway,
                   done |-> r.exc # "none"]
       /\ ret' = [exc |-> r.exc, val |-> r.val]
       /\ it' = IF r.exc = "none" THEN r.it ELSE NoIterator
  /\ UNCHANGED <<dirs, fs, cwd, ctx>>

\* list(it): the iterator is read to its end.
ListPaths ==
  /\ it.open
  /\ \E order \in Relistings({unread(it)[i] : i \in 1..Len(unread(it))}, it.order) :
     \E r \in {iter_rest(it, order)} :
       /\ call' = [op |-> "list", root |-> it.root, order |-> it.order,
                   yielded |-> it.yielded \o r, midway |-> it.midway, done |-> TRUE]
       /\ ret' = Ok(r)
  /\ it' = NoIterator
  /\ UNCHANGED <<dirs, fs, cwd, ctx>>

GetDuplicates ==
  \E args \in GetDuplicatesArgs :
    /\ Callable
    /\ \E order \in ListingOrders(ScannedDirs({args[1], args[2]})) :
       \E r \in {get_duplicates(args[1], args[2], order)} :
         /\ call' = [op |-> "get_duplicates", include |-> args[1], exclude |-> args[2],
                     order |-> order]
         /\ ret' = r
    /\ UNCHANGED <<dirs, fs, cwd, it, ctx>>

\* remove(paths), also while an iterator of subpaths is being read, then of
\* one path.
Remove ==
  \E paths \in RemoveArgs :
    /\ Callable \/ (Waiting /\ paths \in MidwayRemovePaths)
    /\ \E r \in {remove(paths)} :
         /\ call' = [op |-> "remove", paths |-> paths]
         /\ ret' = [exc |-> r.exc, val |-> r.val]
         /\ fs' = r.fs
    /\ it' = iter_touch(it)
    /\ UNCHANGED <<dirs, cwd, ctx>>

RemoveDuplicates ==
  \E directory \in RemoveDuplicatesArgs :
    /\ Callable
    /\ \E order \in ListingOrders(ScannedDirs({directory})) :
       \E d \in {get_duplicates(directory, None, order)} :
       \E r \in {remove_duplicates(directory, order)} :
         /\ call' = [op |-> "remove_duplicates", directory |-> directory, found |-> d]
         /\ ret' = [exc |-> r.exc, val |-> r.val]
         /\ fs' = r.fs
    /\ UNCHANGED <<dirs, cwd, it, ctx>>

\* The caller has the result and goes on.
Return ==
  /\ call.op # "idle"
  /\ ~it.open
  /\ call' = Idle
  /\ ret' = Idle
  /\ UNCHANGED <<dirs, fs, cwd, it, ctx>>

Next == Subpaths \/ NextPath \/ ListPaths \/ GetDuplicates \/ Remove \/ RemoveDuplicates \/ Return

Spec == Init /\ [][Next]_vars

----------------------------------------------------------------------------
(* The in_dir block, step by step, with the calls that its body makes, and *)
(* the test-tree generator, inside the block or outside.                   *)

InitInDir ==
  /\ dirs = DirSet
  /\ fs \in {f \in FileSystems : /\ Cardinality(DOMAIN f) <= 1
                                /\ DOMAIN f \subseteq {Root \o <<"f">>, DirB \o <<"f">>}}
  /\ cwd \in {Top, Root}
  /\ call = Idle
  /\ ret = Idle
  /\ it = NoIterator
  /\ ctx = NoCtx

\* with in_dir(directory): up to the yield.
InDirEnter ==
  \E directory \in InDirArgs :
    /\ Callable
    /\ ctx.phase = "idle"
    /\ \E r \in {in_dir_enter(directory)} :
         /\ cwd' = r.cwd
         /\ ctx' = [phase |-> IF r.exc = "none" THEN "body" ELSE "exited",
                    saved |-> getcwd, target |-> directory, outcome |-> r.exc,
                    left |-> cwd]
    /\ UNCHANGED <<dirs, fs, call, ret, it>>

\* The end of the block: its body has returned or raised, and has left the
\* working directory where it is now.
InDirExit ==
  \E raised \in BOOLEAN :
    /\ Callable
    /\ ctx.phase = "body"
    /\ cwd' = in_dir_exit(ctx.saved, raised).cwd
    /\ ctx' = [ctx EXCEPT !.phase = "exited",
                          !.outcome = IF raised THEN "BodyError" ELSE "none",
                          !.left = cwd]
    /\ UNCHANGED <<dirs, fs, call, ret, it>>

\* create_test_directory(...), also while an iterator of subpaths is being
\* read.
CreateTestDirectory ==
  \E args \in CreateArgs :
    /\ Callable \/ (Waiting /\ args \in MidwayCreateArgs)
    /\ \E hash \in HashFunctions(
                     IF IsSinglePath(args[2])
                       THEN {resolve(args[2]) \o <<file_name(i)>> : i \in 0..(args[5] - 1)}
                     ELSE {}) :
       \E st \in create_test_directory(args[1], args[2], args[3], args[4], args[5], hash,
                                       [exc |-> "none", cwd |-> cwd, dirs |-> dirs, fs |-> fs]) :
         /\ call' = [op |-> "create_test_directory", args |-> args]
         /\ ret' = [exc |-> st.exc, val |-> <<>>]
         /\ cwd' = st.cwd
         /\ dirs' = st.dirs
         /\ fs' = st.fs
    /\ it' = iter_touch(it)
    /\ UNCHANGED ctx

\* The block's body makes calls of create_test_directory; the walker and the
\* grouper are called outside the block.
NextInDir ==
  \/ InDirEnter \/ InDirExit \/ CreateTestDirectory \/ Return
  \/ (ctx.phase = "idle" /\ (Subpaths \/ NextPath \/ ListPaths \/ GetDuplicates))

SpecInDir == InitInDir /\ [][NextInDir]_vars

----------------------------------------------------------------------------
(* The vocabulary of the properties.                                       *)

SeqToSet(s) == {s[i] : i \in 1..Len(s)}
NoRepeat(s) == \A i, j \in 1..Len(s) : s[i] = s[j] => i = j

FilesUnder(d) == {p \in DOMAIN fs : Beneath(d, p)}
Digest(p) == MD5(fs[p])

IsRoot(v) == IsSinglePath(v) /\ IsDir(resolve(v))
IsCollection(v) == v.t \in {"list", "tuple"} /\ \A i \in 1..Len(v.items) : IsSinglePath(v.items[i])

\* All the paths of all the groups of a returned mapping, group after group.
RECURSIVE Members(_)
Members(d) == IF d = <<>> THEN <<>> ELSE Head(d).val \o Members(Tail(d))

Returned == call.op = "get_duplicates" /\ ret.exc = "none"

\* The position of the entry n in the listing of the directory d.
Pos(order, d, n) == CHOOSE i \in 1..Len(order[d]) : order[d][i] = n

\* The order claimed for subpaths(d): a file of d comes before everything
\* deeper, the subtrees of two subdirectories of d come in the order in
\* which d lists the subdirectories, and inside one subdirectory the same
\* holds again.
RECURSIVE Precedes(_, _, _, _)
Precedes(order, d, p, q) ==
  LET k == Len(d) + 1 IN
  IF Len(p) = k THEN TRUE
  ELSE /\ Len(q) > k
       /\ IF p[k] # q[k] THEN Pos(order, d, p[k]) < Pos(order, d, q[k])
          ELSE Precedes(order, d \o <<p[k]>>, p, q)

----------------------------------------------------------------------------
(* C1: every group of a mapping that get_duplicates returns has at least   *)
(* two paths.                                                              *)
GroupsHaveTwo ==
  Returned => \A i \in 1..Len(ret.val) : Len(ret.val[i].val) >= 2

\* A returned mapping with a group, from candidates some of which were
\* filtered out for being alone with their digest.
GroupsHaveTwoWitness ==
  /\ Returned
  /\ Len(ret.val) >= 1
  /\ ret.hashed > Len(Members(ret.val))

(* C2: for one root D and no exclude, the keys are exactly the digests     *)
(* that two or more files beneath D share, and each key maps to all the    *)
(* files beneath D with that digest, in the order subpaths(D) gives them.  *)
SingleRootGroups ==
  (call.op = "get_duplicates" /\ IsRoot(call.include) /\ call.exclude.t = "NoneType") =>
    LET D == resolve(call.include)
        found == walk(call.include, call.order).val IN
    /\ ret.exc = "none"
    /\ NoRepeat([i \in 1..Len(ret.val) |-> ret.val[i].key])
    /\ {ret.val[i].key : i \in 1..Len(ret.val)} =
         {Digest(p) : p \in {x \in FilesUnder(D) :
                               \E y \in FilesUnder(D) : y # x /\ Digest(y) = Digest(x)}}
    /\ \A i \in 1..Len(ret.val) :
         ret.val[i].val = SelectSeq(found, LAMBDA p : Digest(p) = ret.val[i].key)
    /\ SeqToSet(found) = FilesUnder(D)

\* One root with a group of two or more files and a file of unique content
\* that is in no group.
SingleRootGroupsWitness ==
  /\ Returned
  /\ IsRoot(call.include)
  /\ call.exclude.t = "NoneType"
  /\ Len(ret.val) = 1
  /\ \E p \in FilesUnder(resolve(call.include)) : p \notin SeqToSet(Members(ret.val))
  /\ ret.val[1].val[1] # ret.val[1].val[2]

(* C3: with include one root A and exclude a directory E beneath A,        *)
(* get_duplicates completes and no file beneath E is in any group.         *)
ExcludeBeneathCompletes ==
  (/\ call.op = "get_duplicates"
   /\ IsRoot(call.include)
   /\ call.exclude.t = "str"
   /\ IsDir(resolve(call.exclude))
   /\ Beneath(resolve(call.include), resolve(call.exclude))) =>
    /\ ret.exc = "none"
    /\ \A p \in SeqToSet(Members(ret.val)) : ~Beneath(resolve(call.exclude), p)

\* The paths handed to remove, one or a collection, none of them a
\* directory.
GivenPaths(v) == IF IsSinglePath(v) THEN <<v>> ELSE v.items
NamesFiles(v) ==
  /\ IsSinglePath(v) \/ IsCollection(v)
  /\ \A i \in 1..Len(GivenPaths(v)) : ~IsDir(resolve(GivenPaths(v)[i]))

(* C4: remove, given a path or a collection of paths, never raises on a    *)
(* failed deletion: afterwards no input path is a file, the returned list  *)
(* holds only input paths and holds every input path that was not a file.  *)
RemoveToleratesFailure ==
  [][(call'.op = "remove" /\ NamesFiles(call'.paths)) =>
       LET given == GivenPaths(call'.paths) IN
       /\ ret'.exc = "none"
       /\ \A i \in 1..Len(given) : resolve(given[i]) \notin DOMAIN fs'
       /\ SeqToSet(ret'.val) \subseteq SeqToSet(given)
       /\ \A i \in 1..Len(given) :
            ~IsFile(resolve(given[i])) => given[i] \in SeqToSet(ret'.val)]_vars

(* C5: after remove_duplicates(directory) every member of every group that *)
(* get_duplicates(directory) returned has been deleted.                    *)
RemoveDuplicatesDeletesAll ==
  (call.op = "remove_duplicates" /\ call.found.exc = "none") =>
    /\ ret.exc = "none"
    /\ \A p \in SeqToSet(Members(call.found.val)) : ~IsFile(p)

(* C6: subpaths(D), read to its end, yields every regular file beneath D   *)
(* exactly once and nothing else, the files of D first, then the subtree   *)
(* of each subdirectory in turn, provided the tree is not changed once the *)
(* reading has begun; a change between the call and the first read shows   *)
(* in what is yielded.                                                     *)
SubpathsExact ==
  (/\ call.op \in {"next", "list"}
   /\ call.done
   /\ ~call.midway) =>
    LET D == call.root IN
    /\ NoRepeat(call.yielded)
    /\ SeqToSet(call.yielded) = FilesUnder(D)
    /\ \A i, j \in 1..Len(call.yielded) :
         i < j => Precedes(call.order, D, call.yielded[i], call.yielded[j])

\* A walk read path by path to its end, which found a file of the root, a
\* file two levels down and a file of the other subdirectory.
SubpathsExactWitness ==
  /\ call.op = "next"
  /\ call.done
  /\ ~call.midway
  /\ call.root = Root
  /\ ret.exc = "StopIteration"
  /\ \E i, j, k \in 1..Len(call.yielded) :
       /\ Len(call.yielded[i]) = Len(Root) + 1
       /\ Beneath(DirC, call.yielded[j])
       /\ Beneath(DirB, call.yielded[k])

(* C7: with include a list of two roots A and B, the candidates are        *)
(* subpaths(A) followed by subpaths(B), and a file beneath A and a file    *)
(* beneath B of identical content are in the same group.                   *)
TwoRootsGroups ==
  (/\ call.op = "get_duplicates"
   /\ call.include.t = "list"
   /\ Len(call.include.items) = 2
   /\ \A i \in 1..2 : IsRoot(call.include.items[i])
   /\ call.exclude.t = "NoneType") =>
    LET A == call.include.items[1]
        B == call.include.items[2]
        both == walk(A, call.order).val \o walk(B, call.order).val IN
    /\ ret.exc = "none"
    /\ \A i \in 1..Len(ret.val) :
         ret.val[i].val = SelectSeq(both, LAMBDA p : Digest(p) = ret.val[i].key)
    /\ \A p \in FilesUnder(resolve(A)), q \in FilesUnder(resolve(B)) :
         Digest(p) = Digest(q) =>
           \E i \in 1..Len(ret.val) : {p, q} \subseteq SeqToSet(ret.val[i].val)

\* Two roots, neither beneath the other, each with one file of the shared
\* content and no duplicate of its own: the group is the pair across roots.
TwoRootsGroupsWitness ==
  /\ Returned
  /\ call.include.t = "list"
  /\ Len(call.include.items) = 2
  /\ \A i \in 1..2 : IsRoot(call.include.items[i])
  /\ Len(ret.val) = 1
  /\ Len(ret.val[1].val) = 2
  /\ LET A == resolve(call.include.items[1])
         B == resolve(call.include.items[2]) IN
     /\ Beneath(A, ret.val[1].val[1]) /\ ~Beneath(B, ret.val[1].val[1])
     /\ Beneath(B, ret.val[1].val[2]) /\ ~Beneath(A, ret.val[1].val[2])

\* The two shapes of include that the code takes, and a value that is
\* neither a single path nor a collection.
IsPathList(v) == v.t = "list" /\ \A i \in 1..Len(v.items) : IsSinglePath(v.items[i])
IsShape(v) == IsSinglePath(v) \/ IsPathList(v)
IsNoShape(v) == v.t \notin {"str", "Path", "list", "tuple"}
\* Every path that v names is an existing directory.
NamesDirs(v) ==
  /\ IsSinglePath(v) => IsRoot(v)
  /\ IsPathList(v) => \A i \in 1..Len(v.items) : IsRoot(v.items[i])

(* C8: exclude is accepted in the same two shapes as include, a single     *)
(* path (string or Path) or a collection of paths; get_duplicates raises   *)
(* the unsupported-type error exactly when include or exclude is neither,  *)
(* and then before any file is hashed.                                     *)
ShapesAccepted ==
  (/\ call.op = "get_duplicates"
   /\ IsShape(call.include) \/ IsNoShape(call.include)
   /\ call.exclude.t = "NoneType" \/ IsShape(call.exclude) \/ IsNoShape(call.exclude)
   /\ NamesDirs(call.include) /\ NamesDirs(call.exclude)) =>
    LET bad == IsNoShape(call.include)
                 \/ (call.exclude.t # "NoneType" /\ IsNoShape(call.exclude)) IN
    /\ (ret.exc = "NotImplementedError") <=> bad
    /\ ret.exc = "NotImplementedError" => ret.hashed = 0

(* C9: in_dir leaves the working directory as it was before entry on every *)
(* exit (normal, raised in the body, failed to enter), and the body starts *)
(* in the target directory.                                                *)
InDirRestores ==
  [][/\ (ctx.phase = "idle" /\ ctx'.phase = "body") =>
          /\ ctx'.saved.parts = cwd
          /\ cwd' = (IF ctx'.target.abs THEN ctx'.target.parts
                     ELSE cwd \o ctx'.target.parts)
     /\ (ctx.phase = "idle" /\ ctx'.phase = "exited") => cwd' = cwd
     /\ (ctx.phase = "body" /\ ctx'.phase = "exited") => cwd' = ctx.saved.parts]_vars

\* A block that entered another directory, whose body made a tree somewhere
\* else, stayed there and then raised.
InDirRestoresWitness ==
  /\ ctx.phase = "exited"
  /\ ctx.outcome = "BodyError"
  /\ ctx.target.t = "str"
  /\ ~ctx.target.abs
  /\ ctx.left = TestDirec
  /\ TestDirec \o <<dir_name(0)>> \in dirs
  /\ cwd = Root

(* C10, as claimed: whatever include is, no path occurs twice among the    *)
(* groups of a returned mapping.                                           *)
NoPathTwice ==
  Returned => NoRepeat(Members(ret.val))

\* The roots of include: none is another, none lies beneath another.
DisjointRoots(v) ==
  \/ IsRoot(v)
  \/ /\ v.t = "list"
     /\ \A i \in 1..Len(v.items) : IsRoot(v.items[i])
     /\ \A i, j \in 1..Len(v.items) :
          i # j => /\ resolve(v.items[i]) # resolve(v.items[j])
                   /\ ~Beneath(resolve(v.items[i]), resolve(v.items[j]))

(* C10, amended: when include is one root, or a list of roots none of      *)
(* which equals or lies beneath another, no path occurs twice within a     *)
(* group nor in two groups of the returned mapping.                        *)
NoPathTwiceDisjoint ==
  (Returned /\ DisjointRoots(call.include)) => NoRepeat(Members(ret.val))

\* A list of two separate roots for which a group was returned.
NoPathTwiceDisjointWitness ==
  /\ Returned
  /\ call.include.t = "list"
  /\ DisjointRoots(call.include)
  /\ Len(ret.val) >= 1

====
